---- MODULE Spec2Model ----
(***************************************************************************)
(* A model of the synthetic-user decision maker: the two-tier memory       *)
(* system (memory_system.py), the emotion engine (emotion_fsm.py), the     *)
(* persona (user_persona.py) and the ranking/decision engine               *)
(* (decision_maker.py).                                                    *)
(*                                                                         *)
(* Numbers.  The program computes with floats; the model computes with     *)
(* integers in fixed point, exactly:                                       *)
(*   - traits, importances, valences, weights, preferences: percent        *)
(*     (Pct = 1.0);                                                        *)
(*   - memory strengths and emotion intensities: 1/10000 (Pct*Pct = 1.0);  *)
(*   - persona energy: 1/1000 (Mille = 1.0);                               *)
(*   - component scores: 1/100000 (Pct*Mille = 1.0);                       *)
(*   - total scores and noise: 1/10000000 (Pct*Mille*Pct = 1.0).           *)
(* Float rounding error (of the order of 1e-16) is not modelled.           *)
(*                                                                         *)
(* Strings are sequences of one-character strings, so that lower(),        *)
(* split() and the substring test `in` are computed, not assumed.          *)
(***************************************************************************)
EXTENDS Integers, Sequences, FiniteSets, TLC

VARIABLES
    now,               \* the wall clock, in ticks of HoursPerTick hours
    ops,               \* number of operations called so far (bounds the run)
    capacity,          \* ShortTermMemory.capacity
    threshold,         \* LongTermMemory.consolidation_threshold (percent)
    items,             \* the heap of MemoryItem objects, by identity 1..Len(items)
    stm,               \* ShortTermMemory.items: identities, oldest first
    ltm,               \* LongTermMemory.episodic_memory: identities, in list order
    proc,              \* LongTermMemory.procedural_memory: action key -> percent
    persona,           \* the UserPersona the engine owns
    profile,           \* EmotionFSM.profile, copied from the persona at construction
    weights,           \* EmotionFSM.weights
    current_state,     \* EmotionFSM.current_state
    state_history,     \* EmotionFSM.state_history
    intensities,       \* EmotionFSM.intensities: (state, intensity) items in dict order
    updates,           \* history: update_state calls since construction or reset()
    current_goal,      \* SyntheticUserDecisionMaker.current_goal
    ctx,               \* SyntheticUserDecisionMaker.current_context
    interaction_count, \* SyntheticUserDecisionMaker.interaction_count
    recent_actions,    \* SyntheticUserDecisionMaker.recent_actions
    budget,            \* operations allowed in this run
    horizon,           \* clock ticks allowed in this run
    rng,               \* the module-level `random` generator: values drawn from it so far
    own_draws,         \* history: values this engine has drawn from the generator
    returned,          \* history: per item, how often an episodic search returned it
    lastOp             \* history: the last operation called, its inputs and its result

memVars == <<capacity, threshold, items, stm, ltm, proc>>
fsmVars == <<profile, weights, current_state, state_history, intensities, updates>>
engineVars == <<persona, current_goal, ctx, interaction_count, recent_actions>>
rngVars == <<rng, own_draws>>
vars == <<now, ops, budget, horizon, memVars, fsmVars, engineVars, rngVars, returned, lastOp>>

----------------------------------------------------------------------------
(* Fixed point *)

Pct == 100
Mille == 1000

Min(a, b) == IF a <= b THEN a ELSE b
Max(a, b) == IF a >= b THEN a ELSE b

\* max(0.0, min(1.0, x)) with 1.0 written as `one`
Clamp01_NoUpper(x, one) == Max(0, x)
Clamp01(x, one) == Max(0, Min(one, x))

----------------------------------------------------------------------------
(* Strings *)

UpperLetters == <<"A","B","C","D","E","F","G","H","I","J","K","L","M",
                  "N","O","P","Q","R","S","T","U","V","W","X","Y","Z">>
LowerLetters == <<"a","b","c","d","e","f","g","h","i","j","k","l","m",
                  "n","o","p","q","r","s","t","u","v","w","x","y","z">>

LowerMap ==
    [c \in {UpperLetters[i] : i \in 1..26} |->
        LowerLetters[CHOOSE i \in 1..26 : UpperLetters[i] = c]]

LowerChar(c) == IF c \in DOMAIN LowerMap THEN LowerMap[c] ELSE c

\* str.lower()
Lower(s) == [i \in 1..Len(s) |-> LowerChar(s[i])]

\* `needle in hay` (the empty string is in every string)
Contains(needle, hay) ==
    \E i \in 0..(Len(hay) - Len(needle)) : SubSeq(hay, i + 1, i + Len(needle)) = needle

\* str.split(): the maximal runs of non-blank characters, in order
RECURSIVE SplitFrom(_, _, _)
SplitFrom(s, i, cur) ==
    IF i > Len(s)
    THEN IF cur = <<>> THEN <<>> ELSE <<cur>>
    ELSE IF s[i] = " "
         THEN (IF cur = <<>> THEN <<>> ELSE <<cur>>) \o SplitFrom(s, i + 1, <<>>)
         ELSE SplitFrom(s, i + 1, Append(cur, s[i]))

Split(s) == SplitFrom(s, 1, <<>>)

\* "" and None are both falsy: one value stands for both
NoStr == <<>>

S_action == <<"a", "c", "t", "i", "o", "n">>
S_observation == <<"o", "b", "s", "e", "r", "v", "a", "t", "i", "o", "n">>
S_outcome == <<"o", "u", "t", "c", "o", "m", "e">>
S_button == <<"b", "u", "t", "t", "o", "n">>
S_link == <<"l", "i", "n", "k">>
S_form == <<"f", "o", "r", "m">>
S_dropdown == <<"d", "r", "o", "p", "d", "o", "w", "n">>
S_multi_select == <<"m", "u", "l", "t", "i", "-", "s", "e", "l", "e", "c", "t">>
S_help == <<"h", "e", "l", "p">>
S_guide == <<"g", "u", "i", "d", "e">>
S_skip == <<"s", "k", "i", "p">>
S_close == <<"c", "l", "o", "s", "e">>
S_buy == <<"b", "u", "y">>
S_pay == <<"p", "a", "y">>
S_menu == <<"m", "e", "n", "u">>
S_Buy == <<"B", "u", "y">>
S_Help == <<"H", "e", "l", "p">>
S_Skip == <<"S", "k", "i", "p">>
S_Menu == <<"M", "e", "n", "u">>
S_Pay_form == <<"P", "a", "y", " ", "f", "o", "r", "m">>
S_PAY == <<"P", "A", "Y">>
S_Buy_it == <<"B", "u", "y", " ", "i", "t">>
S_Get_help == <<"G", "e", "t", " ", "h", "e", "l", "p">>
S_Chose_button_Buy == <<"C", "h", "o", "s", "e", " ", "b", "u", "t", "t", "o", "n", ":", " ", "B", "u", "y">>
S_Buy_failed == <<"B", "u", "y", " ", "f", "a", "i", "l", "e", "d">>
S_Saw_help == <<"S", "a", "w", " ", "h", "e", "l", "p">>
S_button_Buy == <<"b", "u", "t", "t", "o", "n", " ", "B", "u", "y">>
S_HELP_buy == <<"H", "E", "L", "P", " ", " ", "b", "u", "y">>

----------------------------------------------------------------------------
(* Bounds *)

MaxMemOps == 4         \* operations in a run of the memory system
MaxProcOps == 4        \* update_procedural_memory calls in a run
MaxCapacity == 2       \* short-term capacities tried: 0..MaxCapacity
MaxTicks == 2          \* the clock advances at most this many ticks
HoursPerTick == 5      \* hours in one tick of the clock
MaxLimit == 2          \* search limits tried: 1..MaxLimit

----------------------------------------------------------------------------
(* MemoryItem *)

DEFAULT_DECAY_RATE == 10          \* decay_rate = 0.1 per hour
DECAY_THRESHOLD == 2000           \* threshold = 0.2 in decay_memories
DEFAULT_STM_CAPACITY == 7
DEFAULT_LTM_THRESHOLD == 60
DEFAULT_LEARNING_RATE == 10
NEUTRAL_PREFERENCE == 50

\* MemoryItem(...) as add_memory builds it
NewItem(content, memory_type, importance, emotional_valence, t) ==
    [timestamp |-> t, content |-> content, memory_type |-> memory_type,
     importance |-> importance, emotional_valence |-> emotional_valence,
     access_count |-> 0, decay_rate |-> DEFAULT_DECAY_RATE]

\* MemoryItem.get_strength(current_time), in 1/10000
GetStrength_NoAccessBase(item, current_time) ==
    LET time_diff == (current_time - item.timestamp) * HoursPerTick
        time_factor == Max(0, Pct - time_diff * item.decay_rate)
        access_factor == Min(Pct, item.access_count * 10)
    IN  Clamp01(time_factor * 50 + access_factor * 30 + item.importance * 20, Pct * Pct)
GetStrength(item, current_time) ==
    LET time_diff == (current_time - item.timestamp) * HoursPerTick
        time_factor == Max(0, Pct - time_diff * item.decay_rate)
        access_factor == Min(Pct, 50 + item.access_count * 10)
    IN  Clamp01(time_factor * 50 + access_factor * 30 + item.importance * 20, Pct * Pct)

\* list.sort(key=..., reverse=True): stable, descending by key; K[i] is the key of s[i]
SortDesc_TiesReversed(s, K) ==
    LET n == Len(s)
        pos(i) == 1 + Cardinality({j \in 1..n : K[j] > K[i] \/ (K[j] = K[i] /\ j > i)})
    IN  [p \in 1..n |-> s[CHOOSE i \in 1..n : pos(i) = p]]
SortDesc(s, K) ==
    LET n == Len(s)
        pos(i) == 1 + Cardinality({j \in 1..n : K[j] > K[i] \/ (K[j] = K[i] /\ j < i)})
    IN  [p \in 1..n |-> s[CHOOSE i \in 1..n : pos(i) = p]]

\* a list of item identities sorted by strength at current_time
SortByStrength(ids, heap, current_time) ==
    SortDesc(ids, [i \in 1..Len(ids) |-> GetStrength(heap[ids[i]], current_time)])

\* [x for x in s if P(x)]
RECURSIVE Filter(_, _)
Filter(s, keep) ==
    IF s = <<>> THEN <<>>
    ELSE IF Head(s) \in keep THEN <<Head(s)>> \o Filter(Tail(s), keep)
         ELSE Filter(Tail(s), keep)

\* s[:limit] for limit >= 0
Prefix(s, limit) == SubSeq(s, 1, Min(Len(s), limit))

Range(s) == {s[i] : i \in 1..Len(s)}

----------------------------------------------------------------------------
(* ShortTermMemory *)

\* deque(maxlen=capacity).append(item)
ShortTermAdd_DropNewest(q, cap, id) ==
    IF Len(q) < cap THEN Append(q, id) ELSE q
ShortTermAdd(q, cap, id) ==
    IF cap = 0 THEN q
    ELSE IF Len(q) < cap THEN Append(q, id)
         ELSE Append(Tail(q), id)

----------------------------------------------------------------------------
(* LongTermMemory *)

\* consolidate(item): the episodic list afterwards
Consolidate_Always(list, thr, id, importance) == Append(list, id)
Consolidate_Strict(list, thr, id, importance) ==
    IF importance > thr THEN Append(list, id) ELSE list
Consolidate(list, thr, id, importance) ==
    IF importance >= thr THEN Append(list, id) ELSE list

\* update_procedural_memory(action, success, learning_rate): the mapping afterwards
UpdateProcedural_NoClamp(pm, action, success, learning_rate) ==
    LET start == IF action \in DOMAIN pm THEN pm[action] ELSE NEUTRAL_PREFERENCE
        adjustment == IF success THEN learning_rate ELSE -learning_rate
    IN  [k \in DOMAIN pm \cup {action} |-> IF k = action THEN start + adjustment ELSE pm[k]]
UpdateProcedural(pm, action, success, learning_rate) ==
    LET start == IF action \in DOMAIN pm THEN pm[action] ELSE NEUTRAL_PREFERENCE
        adjustment == IF success THEN learning_rate ELSE -learning_rate
    IN  [k \in DOMAIN pm \cup {action} |->
            IF k = action THEN Clamp01(start + adjustment, Pct) ELSE pm[k]]

\* get_action_preference(action)
GetActionPreference_Neutral(pm, action) == NEUTRAL_PREFERENCE
GetActionPreference(pm, action) ==
    IF action \in DOMAIN pm THEN pm[action] ELSE NEUTRAL_PREFERENCE

\* search_episodic: whether the three filters leave `results` the list itself
SearchUnfiltered(memory_type, keyword, min_importance) ==
    memory_type = NoStr /\ keyword = NoStr /\ min_importance <= 0

\* search_episodic: the filtered candidates, in list order
SearchCandidates(list, heap, memory_type, keyword, min_importance) ==
    Filter(list, {id \in Range(list) :
        /\ memory_type # NoStr => heap[id].memory_type = memory_type
        /\ keyword # NoStr => Contains(Lower(keyword), Lower(heap[id].content))
        /\ min_importance > 0 => heap[id].importance >= min_importance})

\* search_episodic: the list returned
SearchEpisodicResult(list, heap, memory_type, keyword, min_importance, limit, current_time) ==
    Prefix(SortByStrength(SearchCandidates(list, heap, memory_type, keyword, min_importance),
                          heap, current_time), limit)

\* search_episodic: the episodic list afterwards (an unfiltered search sorts it in place)
SearchEpisodicList_KeepsResults(list, heap, memory_type, keyword, min_importance, current_time) ==
    SortByStrength(SearchCandidates(list, heap, memory_type, keyword, min_importance), heap, current_time)
SearchEpisodicList(list, heap, memory_type, keyword, min_importance, current_time) ==
    IF SearchUnfiltered(memory_type, keyword, min_importance)
    THEN SortByStrength(list, heap, current_time)
    ELSE list

\* search_episodic: the heap afterwards (no returned item is touched)
SearchEpisodicHeap(heap, result) == heap

\* decay_memories(current_time): the episodic list afterwards
DecayedList_Strict(list, heap, current_time) ==
    Filter(list, {id \in Range(list) : GetStrength(heap[id], current_time) > DECAY_THRESHOLD})
DecayedList(list, heap, current_time) ==
    Filter(list, {id \in Range(list) : GetStrength(heap[id], current_time) >= DECAY_THRESHOLD})

\* the history of returns, after a search returned `result`
CountReturns(ret, result) ==
    [id \in 1..Len(ret) |-> ret[id] + Cardinality({i \in 1..Len(result) : result[i] = id})]

----------------------------------------------------------------------------
(* MemorySystem *)

\* {id(m): m for m in relevant_memories}.values(): first occurrences, in order
Unique_KeepAll(s, seen) == s
RECURSIVE Unique(_, _)
Unique(s, seen) ==
    IF s = <<>> THEN <<>>
    ELSE IF Head(s) \in seen THEN Unique(Tail(s), seen)
         ELSE <<Head(s)>> \o Unique(Tail(s), seen \cup {Head(s)})

\* recall_similar_experiences: one pass of the loop over the keywords.  acc is
\* [list, found, ret]: the episodic list, relevant_memories and the history of returns;
\* res is what search_episodic returned and list2 the episodic list it left.
RecallExtend(acc, res, list2) ==
    [list |-> list2, found |-> acc.found \o res, ret |-> CountReturns(acc.ret, res)]

RecallStep(acc, keyword, heap, memory_type, limit, current_time) ==
    RecallExtend(acc,
        SearchEpisodicResult(acc.list, heap, memory_type, keyword, 0, limit, current_time),
        SearchEpisodicList(acc.list, heap, memory_type, keyword, 0, current_time))

\* recall_similar_experiences: the loop over keywords[k..]
RECURSIVE RecallLoop(_, _, _, _, _, _, _)
RecallLoop(keywords, k, acc, heap, memory_type, limit, current_time) ==
    IF k > Len(keywords) THEN acc
    ELSE RecallLoop(keywords, k + 1,
                    RecallStep(acc, keywords[k], heap, memory_type, limit, current_time),
                    heap, memory_type, limit, current_time)

\* recall_similar_experiences: remove duplicates, sort by strength, cut to limit
RecallFinish(loop, heap, limit, current_time) ==
    [list |-> loop.list, ret |-> loop.ret,
     result |-> Prefix(SortByStrength(Unique(loop.found, {}), heap, current_time), limit)]

\* recall_similar_experiences, after keywords = current_context.lower().split()
RecallKeywords(list, heap, ret, keywords, memory_type, limit, current_time) ==
    RecallFinish(RecallLoop(keywords, 1, [list |-> list, found |-> <<>>, ret |-> ret],
                            heap, memory_type, limit, current_time),
                 heap, limit, current_time)

\* recall_similar_experiences(current_context, memory_type, limit)
Recall(list, heap, ret, current_context, memory_type, limit, current_time) ==
    RecallKeywords(list, heap, ret, Split(Lower(current_context)), memory_type, limit,
                   current_time)

----------------------------------------------------------------------------
(* UserPersona *)

FATIGUE_TASK_COMPLEXITY == 30     \* apply_fatigue(task_complexity=0.3) in make_decision

\* apply_fatigue(task_complexity): the energy level afterwards, in 1/1000.
\* fatigue = task_complexity * rate is percent * percent = 1/10000.
ApplyFatigue_NoFloor(energy_level, rate, task_complexity) ==
    energy_level - (task_complexity * rate) \div 10
ApplyFatigue(energy_level, rate, task_complexity) ==
    Max(0, energy_level - (task_complexity * rate) \div 10)

\* rest(amount): the energy level afterwards, amount in 1/1000
Rest_NoCap(energy_level, amount) == energy_level + amount
Rest(energy_level, amount) == Min(Mille, energy_level + amount)

\* get_current_state_modifiers()
StateModifiers(p) ==
    [cognitive_modifier |-> p.energy_level, patience_modifier |-> p.energy_level,
     attention_modifier |-> p.energy_level, impulsivity_modifier |-> Mille - p.energy_level]

\* SyntheticUserDecisionMaker.__init__: the EmotionProfile copied from the persona
ProfileOf(p) ==
    [product_familiarity |-> p.product_familiarity,
     cognitive_ability |-> p.cognitive_ability,
     ocean_neuroticism |-> p.neuroticism,
     ocean_openness |-> p.openness,
     ocean_conscientiousness |-> p.conscientiousness]

----------------------------------------------------------------------------
(* EmotionFSM *)

NEUTRAL == "neutral"
CONFUSED == "confused"
IN_CONTROL == "in_control"
FRUSTRATED == "frustrated"

\* EmotionModelWeights(), in percent
DefaultWeights ==
    [confused |-> [base_intensity |-> 40, neuroticism_weight |-> 50,
                   familiarity_weight |-> 20, cognitive_ability_weight |-> 10,
                   openness_weight |-> 15, interface_complexity_weight |-> 20,
                   task_difficulty_weight |-> 15],
     in_control |-> [base_intensity |-> 50, conscientiousness_weight |-> 20,
                     familiarity_weight |-> 30, openness_weight |-> 25,
                     external_pressure_weight |-> 10, success_weight |-> 20],
     neutral |-> [base_intensity |-> 10, neuroticism_weight |-> 10,
                  openness_weight |-> 10],
     frustrated |-> [base_intensity |-> 20, neuroticism_weight |-> 40,
                     failure_weight |-> 30, patience_weight |-> 20,
                     pressure_weight |-> 15]]

\* EmotionContext()
DefaultContext ==
    [interface_complexity |-> 30, external_situation_pressure |-> 10,
     task_difficulty |-> 50, recent_failures |-> 0, recent_successes |-> 0]

\* calculate_confused_intensity, in 1/10000
ConfusedIntensity(pf, w, c) ==
    Clamp01(w.confused.base_intensity * Pct
            + pf.ocean_neuroticism * w.confused.neuroticism_weight
            + (Pct - pf.product_familiarity) * w.confused.familiarity_weight
            - pf.cognitive_ability * w.confused.cognitive_ability_weight
            - pf.ocean_openness * w.confused.openness_weight
            + c.interface_complexity * w.confused.interface_complexity_weight
            + c.task_difficulty * w.confused.task_difficulty_weight,
            Pct * Pct)

\* calculate_incontrol_intensity, in 1/10000
InControlIntensity_NoBase(pf, w, c) ==
    Clamp01(pf.ocean_conscientiousness * w.in_control.conscientiousness_weight
            + pf.product_familiarity * w.in_control.familiarity_weight
            + pf.ocean_openness * w.in_control.openness_weight
            + c.external_situation_pressure * w.in_control.external_pressure_weight
            + (IF c.recent_successes > 0
               THEN Min(30, c.recent_successes * 10) * w.in_control.success_weight
               ELSE 0),
            Pct * Pct)
InControlIntensity(pf, w, c) ==
    Clamp01(w.in_control.base_intensity * Pct
            + pf.ocean_conscientiousness * w.in_control.conscientiousness_weight
            + pf.product_familiarity * w.in_control.familiarity_weight
            + pf.ocean_openness * w.in_control.openness_weight
            + c.external_situation_pressure * w.in_control.external_pressure_weight
            + (IF c.recent_successes > 0
               THEN Min(30, c.recent_successes * 10) * w.in_control.success_weight
               ELSE 0),
            Pct * Pct)

\* calculate_neutral_intensity, in 1/10000
NeutralIntensity(pf, w, c) ==
    Clamp01(w.neutral.base_intensity * Pct
            + pf.ocean_neuroticism * w.neutral.neuroticism_weight
            + pf.ocean_openness * w.neutral.openness_weight,
            Pct * Pct)

\* calculate_frustrated_intensity, in 1/10000
FrustratedIntensity_NoCap(pf, w, c, patience) ==
    Clamp01(w.frustrated.base_intensity * Pct
            + pf.ocean_neuroticism * w.frustrated.neuroticism_weight
            + (Pct - patience) * w.frustrated.patience_weight
            + c.recent_failures * 15 * w.frustrated.failure_weight
            + c.external_situation_pressure * w.frustrated.pressure_weight,
            Pct * Pct)
FrustratedIntensity(pf, w, c, patience) ==
    Clamp01(w.frustrated.base_intensity * Pct
            + pf.ocean_neuroticism * w.frustrated.neuroticism_weight
            + (Pct - patience) * w.frustrated.patience_weight
            + (IF c.recent_failures > 0
               THEN Min(40, c.recent_failures * 15) * w.frustrated.failure_weight
               ELSE 0)
            + c.external_situation_pressure * w.frustrated.pressure_weight,
            Pct * Pct)

\* update_state: the intensities dict, as its (state, intensity) items in dict order
ComputeIntensities(pf, w, c, patience) ==
    << <<CONFUSED, ConfusedIntensity(pf, w, c)>>,
       <<IN_CONTROL, InControlIntensity(pf, w, c)>>,
       <<NEUTRAL, NeutralIntensity(pf, w, c)>>,
       <<FRUSTRATED, FrustratedIntensity(pf, w, c, patience)>> >>

\* max(items, key=lambda x: x[1])[0]: the first item whose key no later item beats
\* strictly and no earlier item equals
DominantState_LastMax(its) ==
    LET i == CHOOSE k \in 1..Len(its) :
                 /\ \A j \in 1..Len(its) : its[j][2] <= its[k][2]
                 /\ \A j \in (k + 1)..Len(its) : its[j][2] < its[k][2]
    IN  its[i][1]
RECURSIVE MaxItemFrom(_, _, _)
MaxItemFrom(its, k, best) ==
    IF k > Len(its) THEN best
    ELSE MaxItemFrom(its, k + 1, IF its[k][2] > its[best][2] THEN k ELSE best)
DominantState(its) == its[MaxItemFrom(its, 2, 1)][1]

\* the intensity stored for a state (get_state_intensity)
IntensityOf(its, state) ==
    IF \E i \in 1..Len(its) : its[i][1] = state
    THEN its[CHOOSE i \in 1..Len(its) : its[i][1] = state][2]
    ELSE 0

----------------------------------------------------------------------------
(* SyntheticUserDecisionMaker: scoring *)

SCREEN_WIDTH == 1920
SCREEN_HEIGHT == 1080

\* the element is actionable: not (not is_visible or not is_enabled)
Actionable_VisibleOnly(e) == e.is_visible
Actionable_EnabledOnly(e) == e.is_enabled
Actionable(e) == e.is_visible /\ e.is_enabled

\* f"{element.element_type}:{element.semantic_meaning}"
ActionKey(e) == e.element_type \o <<":">> \o e.semantic_meaning

\* _score_goal_alignment, in 1/100000; goal is a Goal or NoGoal (None)
NoGoal == [goal_id |-> "None", description |-> <<>>, priority |-> 0, keywords |-> <<>>]
KeywordHits(goal, e) ==
    Cardinality({i \in 1..Len(goal.keywords) :
        \/ Contains(Lower(goal.keywords[i]), Lower(e.text))
        \/ Contains(Lower(goal.keywords[i]), Lower(e.semantic_meaning))})
ScoreGoalAlignment_ZeroWithoutGoal(goal, e) ==
    IF goal = NoGoal THEN 0
    ELSE Min(Pct * Mille, KeywordHits(goal, e) * 30 * goal.priority * 10)
ScoreGoalAlignment(goal, e) ==
    IF goal = NoGoal THEN 50 * Mille
    ELSE Min(Pct * Mille, KeywordHits(goal, e) * 30 * goal.priority * 10)

\* _score_visual_prominence, in 1/100000
ScoreVisualProminence(p, e) ==
    Min(Pct * Mille,
        IF p.attention_span < 50 THEN e.visual_prominence * 1500
        ELSE e.visual_prominence * Mille)

\* _score_cognitive_load, in 1/100000
ElementComplexity(e) ==
    30 + (IF e.element_type \in {S_dropdown, S_multi_select, S_form} THEN 30
          ELSE IF e.element_type \in {S_button, S_link} THEN 10 ELSE 0)
       + Min(40, Len(e.text))
ScoreCognitiveLoad(p, e, modifiers) ==
    LET element_complexity == ElementComplexity(e) * Mille
        cognitive_capacity == p.cognitive_ability * modifiers.cognitive_modifier
    IN  IF element_complexity <= cognitive_capacity
        THEN Pct * Mille - element_complexity \div 2
        ELSE Max(0, Pct * Mille - (element_complexity - cognitive_capacity))

\* _score_familiarity, in 1/100000; similar is the recalled list of identities.
\* The mean valence is rounded down to 1/100000.
RECURSIVE SumValence(_, _)
SumValence(ids, heap) ==
    IF ids = <<>> THEN 0 ELSE heap[Head(ids)].emotional_valence + SumValence(Tail(ids), heap)
ScoreFamiliarity(p, similar, heap) ==
    IF similar = <<>> THEN p.product_familiarity * Mille
    ELSE Clamp01(50 * Mille + (SumValence(similar, heap) * 500) \div Len(similar),
                 Pct * Mille)

\* _score_emotion_preference, in 1/100000
ScoreEmotionPreference(e, emotion_state) ==
    LET text == Lower(e.text)
        bonus ==
          IF emotion_state = CONFUSED
          THEN (IF e.element_type \in {S_button, S_link} THEN 20 ELSE 0)
               + (IF e.visual_prominence > 70 THEN 20 ELSE 0)
               + (IF Contains(S_help, text) \/ Contains(S_guide, text) THEN 30 ELSE 0)
          ELSE IF emotion_state = FRUSTRATED
          THEN (IF Contains(S_skip, text) \/ Contains(S_close, text) THEN 30 ELSE 0)
               + (IF e.element_type = S_button THEN 20 ELSE 0)
               - (IF e.element_type \in {S_form, S_multi_select} THEN 30 ELSE 0)
          ELSE IF emotion_state = IN_CONTROL
          THEN 10 + (IF e.element_type \in {S_dropdown, S_form} THEN 10 ELSE 0)
          ELSE 0
    IN  Clamp01((50 + bonus) * Mille, Pct * Mille)

\* math.sqrt, rounded down
RECURSIVE IsqrtBetween(_, _, _)
IsqrtBetween(n, lo, hi) ==
    IF lo >= hi THEN lo
    ELSE LET mid == (lo + hi + 1) \div 2
         IN  IF mid * mid <= n THEN IsqrtBetween(n, mid, hi)
             ELSE IsqrtBetween(n, lo, mid - 1)
Isqrt(n) == IsqrtBetween(n, 0, Min(n, 40000))

\* _score_position, in 1/100000; the normalised position and the distance from
\* the centre are rounded down to 1/1000
ScorePosition(e) ==
    LET norm_x == (e.position[1] * Mille) \div SCREEN_WIDTH
        norm_y == (e.position[2] * Mille) \div SCREEN_HEIGHT
        position_score == Pct * Mille - (norm_x * 30 + norm_y * 40)
        dx == norm_x - 500
        dy == norm_y - 500
        distance_from_center == Isqrt(dx * dx + dy * dy)
        center_boost == Max(0, 20 * Mille - distance_from_center * 20)
    IN  Clamp01(position_score + center_boost, Pct * Mille)

\* _combine_scores: the weight table for an emotion state, in percent
CombineWeights(emotion_state) ==
    LET base == [goal_alignment |-> 25, visual_prominence |-> 10, cognitive_load |-> 15,
                 familiarity |-> 10, emotion_preference |-> 15, position |-> 10,
                 learned_preference |-> 10, context_relevance |-> 5]
    IN  IF emotion_state = CONFUSED
        THEN [base EXCEPT !.visual_prominence = 20, !.cognitive_load = 20,
                          !.goal_alignment = 15]
        ELSE IF emotion_state = FRUSTRATED
        THEN [base EXCEPT !.emotion_preference = 25, !.learned_preference = 15,
                          !.goal_alignment = 20]
        ELSE IF emotion_state = IN_CONTROL
        THEN [base EXCEPT !.goal_alignment = 30, !.context_relevance = 15]
        ELSE base

ComponentNames ==
    <<"goal_alignment", "visual_prominence", "cognitive_load", "familiarity",
      "emotion_preference", "position", "learned_preference", "context_relevance">>

\* _combine_scores, in 1/10000000
RECURSIVE WeightedSum(_, _, _)
WeightedSum(scores, w, k) ==
    IF k > Len(ComponentNames) THEN 0
    ELSE scores[ComponentNames[k]] * w[ComponentNames[k]] + WeightedSum(scores, w, k + 1)
CombineScores(scores, emotion_state) == WeightedSum(scores, CombineWeights(emotion_state), 1)

\* total_score = max(0.0, total_score + noise)
NoisyTotal_NoFloor(total, noise) == total + noise
NoisyTotal(total, noise) == Max(0, total + noise)

----------------------------------------------------------------------------
(* Inputs *)

MaxEngineOps == 2      \* operations in a run of the engine
MaxEngineTicks == 1    \* clock ticks in a run of the engine
MaxOutcomeOps == 6     \* record_outcome calls in a run of outcomes only
MaxScoreOps == 3       \* operations in a run of the scoring functions
MaxDecayOps == 6       \* operations in a run of the decay sweep
MaxCounterOps == 5     \* operations in a run of outcomes and rankings
MaxSessionOps == 4     \* operations in a session of the engine
MaxTwoOps == 3         \* operations in a run of two engines
MaxPersonaOps == 4     \* apply_fatigue and rest calls in a run of the persona
MaxList == 2           \* element lists tried: up to this many elements

\* The page: a prominent button at the centre, a form with a two-word label, an
\* invisible element of the highest prominence and relevance, a disabled dropdown.
Elements ==
    << [element_id |-> "btn_buy", element_type |-> S_button, text |-> S_Buy,
        position |-> <<960, 540>>, is_visible |-> TRUE, is_enabled |-> TRUE,
        semantic_meaning |-> S_buy, visual_prominence |-> 90, context_relevance |-> 95],
       [element_id |-> "form_pay", element_type |-> S_form, text |-> S_Pay_form,
        position |-> <<1920, 1080>>, is_visible |-> TRUE, is_enabled |-> TRUE,
        semantic_meaning |-> S_pay, visual_prominence |-> 50, context_relevance |-> 50],
       [element_id |-> "btn_skip", element_type |-> S_button, text |-> S_Skip,
        position |-> <<0, 0>>, is_visible |-> FALSE, is_enabled |-> TRUE,
        semantic_meaning |-> S_skip, visual_prominence |-> 100, context_relevance |-> 100],
       [element_id |-> "dd_menu", element_type |-> S_dropdown, text |-> S_Help,
        position |-> <<100, 100>>, is_visible |-> TRUE, is_enabled |-> FALSE,
        semantic_meaning |-> S_menu, visual_prominence |-> 100, context_relevance |-> 20] >>

ElementIds == 1..Len(Elements)

\* the elements outcomes are recorded for: the button and the invisible one
OutcomeElements == {1, 3}

\* the lists of distinct elements of the page, up to MaxList long
ElementLists ==
    UNION {{l \in [1..n -> ElementIds] : \A i, j \in 1..n : i # j => l[i] # l[j]}
           : n \in 0..Min(MaxList, Len(Elements))}

\* one goal with a single keyword, one whose four keywords all match "Buy"
Goals ==
    << [goal_id |-> "g1", description |-> S_Get_help, priority |-> 90,
        keywords |-> <<S_help>>],
       [goal_id |-> "g2", description |-> S_Buy_it, priority |-> 100,
        keywords |-> <<S_buy, S_Buy, <<"b">>, <<"u">> >>] >>

\* UserPersona() with its defaults
DefaultPersona ==
    [openness |-> 50, conscientiousness |-> 50, neuroticism |-> 50,
     cognitive_ability |-> 50, attention_span |-> 50, product_familiarity |-> 10,
     patience |-> 50, energy_level |-> 800, fatigue_accumulation_rate |-> 1,
     decision_randomness |-> 10]

\* a familiar, organised user who decides without noise
ExpertPersona ==
    [openness |-> 90, conscientiousness |-> 90, neuroticism |-> 10,
     cognitive_ability |-> 90, attention_span |-> 90, product_familiarity |-> 90,
     patience |-> 90, energy_level |-> 1000, fatigue_accumulation_rate |-> 100,
     decision_randomness |-> 0]

\* values random.gauss(0, sigma) is taken to return when sigma > 0, in 1/10000000:
\* one that sinks any score below 0 and one that reorders close scores
NoiseSet == {-20000000, 1500000}

\* the draws of one rank_elements call: one per element scored
Noises(p, n) ==
    IF p.decision_randomness = 0 THEN {[k \in 1..n |-> 0]} ELSE [1..n -> NoiseSet]

\* The goal a reference designates: 0 is None, g > 0 is Goals[g]
GoalAt(g) == IF g = 0 THEN NoGoal ELSE Goals[g]

\* What the scoring functions yield from an element alone, tabulated over the page
\* (the tables are computed once; each entry is the function applied to the element)
EmotionStates == {NEUTRAL, CONFUSED, IN_CONTROL, FRUSTRATED}
PositionScores == [i \in ElementIds |-> ScorePosition(Elements[i])]
EmotionPreferences ==
    [i \in ElementIds |-> [st \in EmotionStates |-> ScoreEmotionPreference(Elements[i], st)]]
GoalAlignments ==
    [i \in ElementIds |-> [g \in 0..Len(Goals) |-> ScoreGoalAlignment(GoalAt(g), Elements[i])]]
ActionKeys == [i \in ElementIds |-> ActionKey(Elements[i])]
ActionableElements == {i \in ElementIds : Actionable(Elements[i])}
\* f"{element.element_type} {element.text}".lower().split()
RecallKeywordsOf ==
    [i \in ElementIds |->
        Split(Lower(Elements[i].element_type \o <<" ">> \o Elements[i].text))]

\* _score_learned_preference for element i of the page, in 1/100000
ScoreLearnedPreference(pm, i) == GetActionPreference(pm, ActionKeys[i]) * Mille

\* an optional argument: None, or a value
None == <<>>
Some(v) == <<v>>

----------------------------------------------------------------------------
(* Operations of the memory system *)

\* MemorySystem.add_memory: the heap, both tiers and the history afterwards
AddMemoryEffect(content, memory_type, importance, emotional_valence) ==
    LET id == Len(items) + 1
    IN  /\ items' = Append(items, NewItem(content, memory_type, importance,
                                          emotional_valence, now))
        /\ stm' = ShortTermAdd(stm, capacity, id)
        /\ ltm' = Consolidate(ltm, threshold, id, importance)
        /\ returned' = Append(returned, 0)

AddMemory(content, memory_type, importance, emotional_valence) ==
    /\ ops < budget
    /\ ops' = ops + 1
    /\ AddMemoryEffect(content, memory_type, importance, emotional_valence)
    /\ lastOp' = [op |-> "add_memory", id |-> Len(items) + 1, importance |-> importance]
    /\ UNCHANGED <<now, budget, horizon, rngVars, capacity, threshold, proc, fsmVars, engineVars>>

UpdateProceduralMemory(action, success, learning_rate) ==
    /\ ops < budget
    /\ ops' = ops + 1
    /\ proc' = UpdateProcedural(proc, action, success, learning_rate)
    /\ lastOp' = [op |-> "update_procedural_memory", action |-> action,
                  success |-> success, learning_rate |-> learning_rate,
                  before |-> GetActionPreference(proc, action)]
    /\ UNCHANGED <<now, budget, horizon, rngVars, capacity, threshold, items, stm, ltm, returned,
                   fsmVars, engineVars>>

SearchEpisodic(memory_type, keyword, min_importance, limit) ==
    /\ ops < budget
    /\ ops' = ops + 1
    /\ \E result \in {SearchEpisodicResult(ltm, items, memory_type, keyword,
                                            min_importance, limit, now)} :
         /\ items' = SearchEpisodicHeap(items, result)
         /\ returned' = CountReturns(returned, result)
         /\ lastOp' = [op |-> "search_episodic", result |-> result, before |-> ltm]
    /\ ltm' = SearchEpisodicList(ltm, items, memory_type, keyword, min_importance, now)
    /\ UNCHANGED <<now, budget, horizon, rngVars, capacity, threshold, stm, proc, fsmVars,
                   engineVars>>

RecallSimilarExperiences(current_context, memory_type, limit) ==
    /\ ops < budget
    /\ ops' = ops + 1
    /\ \E r \in {Recall(ltm, items, returned, current_context, memory_type, limit, now)} :
         /\ ltm' = r.list
         /\ returned' = r.ret
         /\ lastOp' = [op |-> "recall_similar_experiences", result |-> r.result,
                       current_context |-> current_context, memory_type |-> memory_type,
                       limit |-> limit, at |-> now]
    /\ UNCHANGED <<now, budget, horizon, rngVars, capacity, threshold, items, stm, proc,
                   fsmVars, engineVars>>

\* perform_memory_consolidation(): decay_memories(datetime.now())
PerformMemoryConsolidation ==
    /\ ops < budget
    /\ ops' = ops + 1
    /\ ltm' = DecayedList(ltm, items, now)
    /\ lastOp' = [op |-> "perform_memory_consolidation", before |-> ltm, at |-> now]
    /\ UNCHANGED <<now, budget, horizon, rngVars, capacity, threshold, items, stm, proc, returned,
                   fsmVars, engineVars>>

\* the wall clock advances between two calls (a step of the run like any other)
Tick ==
    /\ ops < budget
    /\ now < horizon
    /\ ops' = ops + 1
    /\ now' = now + 1
    /\ UNCHANGED <<budget, horizon, memVars, fsmVars, engineVars, rngVars, returned, lastOp>>

----------------------------------------------------------------------------
(* Operations of the engine *)

SetGoal(g) ==
    /\ ops < budget
    /\ ops' = ops + 1
    /\ current_goal' = g
    /\ AddMemoryEffect(<<"N", "e", "w", " ", "g", "o", "a", "l", ":", " ">>
                       \o GoalAt(g).description,
                       S_observation, 70, 0)
    /\ lastOp' = [op |-> "set_goal", id |-> Len(items) + 1]
    /\ UNCHANGED <<now, budget, horizon, rngVars, capacity, threshold, proc, fsmVars,
                   persona, ctx, interaction_count, recent_actions>>

\* update_context: the context afterwards
UpdatedContext_Swapped(c, interface_complexity, external_pressure, task_difficulty, recent_failure, recent_success) ==
    [c EXCEPT !.recent_failures = @ + (IF recent_success THEN 1 ELSE 0),
              !.recent_successes = @ + (IF recent_failure THEN 1 ELSE 0)]
UpdatedContext(c, interface_complexity, external_pressure, task_difficulty, recent_failure, recent_success) ==
    [interface_complexity |->
        IF interface_complexity # None THEN interface_complexity[1]
        ELSE c.interface_complexity,
     external_situation_pressure |->
        IF external_pressure # None THEN external_pressure[1]
        ELSE c.external_situation_pressure,
     task_difficulty |->
        IF task_difficulty # None THEN task_difficulty[1] ELSE c.task_difficulty,
     recent_failures |-> c.recent_failures + (IF recent_failure THEN 1 ELSE 0),
     recent_successes |-> c.recent_successes + (IF recent_success THEN 1 ELSE 0)]

UpdateContext(interface_complexity, external_pressure, task_difficulty, recent_failure, recent_success) ==
    /\ ops < budget
    /\ ops' = ops + 1
    /\ ctx' = UpdatedContext(ctx, interface_complexity, external_pressure,
                             task_difficulty, recent_failure, recent_success)
    /\ lastOp' = [op |-> "update_context"]
    /\ UNCHANGED <<now, budget, horizon, rngVars, memVars, returned, fsmVars,
                   persona, current_goal, interaction_count, recent_actions>>

\* _calculate_element_scores for element i of the page; similar is what
\* recall_similar_experiences returned
ElementScores(i, emotion_state, similar) ==
    [goal_alignment |-> GoalAlignments[i][current_goal],
     visual_prominence |-> ScoreVisualProminence(persona, Elements[i]),
     cognitive_load |-> ScoreCognitiveLoad(persona, Elements[i], StateModifiers(persona)),
     familiarity |-> ScoreFamiliarity(persona, similar, items),
     emotion_preference |-> EmotionPreferences[i][emotion_state],
     position |-> PositionScores[i],
     learned_preference |-> ScoreLearnedPreference(proc, i),
     context_relevance |-> Elements[i].context_relevance * Mille]

\* the ElementScore of element i, before the noise is added
ScoredElement(i, emotion_state, scores) ==
    [element |-> i, total_score |-> CombineScores(scores, emotion_state),
     component_scores |-> scores]

\* rank_elements, one pass of the loop.  acc is [scored, list, ret]: scored_elements,
\* the episodic list and the history of returns; rec is the recall done for element i.
RankExtend(acc, i, emotion_state, rec) ==
    [scored |-> Append(acc.scored,
                       ScoredElement(i, emotion_state,
                                     ElementScores(i, emotion_state, rec.result))),
     list |-> rec.list, ret |-> rec.ret]

RankStep(acc, i, emotion_state) ==
    IF i \notin ActionableElements THEN acc
    ELSE RankExtend(acc, i, emotion_state,
                    RecallKeywords(acc.list, items, acc.ret, RecallKeywordsOf[i],
                                   S_action, 3, now))

\* rank_elements, the loop over input[k..]
RECURSIVE RankLoop(_, _, _, _)
RankLoop(input, k, emotion_state, acc) ==
    IF k > Len(input) THEN acc
    ELSE RankLoop(input, k + 1, emotion_state, RankStep(acc, input[k], emotion_state))

\* total_score = max(0.0, total_score + noise), for each element scored
AddNoise(scored, noise) ==
    [k \in 1..Len(scored) |->
        [scored[k] EXCEPT !.total_score = NoisyTotal(@, noise[k])]]

\* scored_elements.sort(key=lambda x: x.total_score, reverse=True)
SortByScore(scored) ==
    SortDesc(scored, [i \in 1..Len(scored) |-> scored[i].total_score])

\* rank_elements up to the noise: update_state, then the loop
RankingWith(input, its, dominant) ==
    [intensities |-> its, dominant |-> dominant,
     loop |-> RankLoop(input, 1, dominant,
                       [scored |-> <<>>, list |-> ltm, ret |-> returned])]

RankingFrom(input, its) == RankingWith(input, its, DominantState(its))

Ranking(input) ==
    RankingFrom(input, ComputeIntensities(profile, weights, ctx, persona.patience))

\* random.gauss, called once per element scored: n values leave the generator
DrawNoise(n) ==
    /\ rng' = rng + n
    /\ own_draws' = own_draws + n

\* update_state, as rank_elements calls it
UpdateStateEffect_NoHistory(r) ==
    /\ intensities' = r.intensities
    /\ current_state' = r.dominant
    /\ state_history' = state_history
    /\ updates' = updates + 1
    /\ UNCHANGED <<profile, weights>>
UpdateStateEffect(r) ==
    /\ intensities' = r.intensities
    /\ current_state' = r.dominant
    /\ state_history' = Append(state_history, r.dominant)
    /\ updates' = updates + 1
    /\ UNCHANGED <<profile, weights>>

RankElements(input) ==
    /\ ops < budget
    /\ ops' = ops + 1
    /\ \E r \in {Ranking(input)} :
         /\ UpdateStateEffect(r)
         /\ ltm' = r.loop.list
         /\ returned' = r.loop.ret
         /\ DrawNoise(Len(r.loop.scored))
         /\ \E noise \in Noises(persona, Len(r.loop.scored)) :
               lastOp' = [op |-> "rank_elements", input |-> input,
                          scored |-> r.loop.scored, noise |-> noise,
                          ranked |-> SortByScore(AddNoise(r.loop.scored, noise))]
    /\ UNCHANGED <<now, budget, horizon, capacity, threshold, items, stm, proc, engineVars>>

\* make_decision: the element chosen from a non-empty ranking
BestChoice_Last(ranked) == ranked[Len(ranked)]
BestChoice(ranked) == ranked[1]

\* make_decision: the memory recorded for the choice of element e at time t
DecisionMemory_Observation(e, t) ==
    NewItem(<<"C", "h", "o", "s", "e", " ">> \o e.element_type \o <<":", " ">> \o e.text,
            S_observation, 50, 10, t)
DecisionMemory(e, t) ==
    NewItem(<<"C", "h", "o", "s", "e", " ">> \o e.element_type \o <<":", " ">> \o e.text,
            S_action, 50, 10, t)

\* make_decision, once the ranking is known
Decide(input, r, ranked) ==
    IF ranked = <<>>
    THEN \* raise ValueError("No actionable elements provided")
         /\ ltm' = r.loop.list
         /\ returned' = r.loop.ret
         /\ lastOp' = [op |-> "make_decision", input |-> input,
                       ranked |-> ranked, raised |-> "ValueError"]
         /\ UNCHANGED <<items, stm, engineVars>>
    ELSE LET best == BestChoice(ranked)
             e == Elements[best.element]
             id == Len(items) + 1
             importance == 50
         IN  /\ persona' = [persona EXCEPT !.energy_level =
                     ApplyFatigue(@, persona.fatigue_accumulation_rate,
                                  FATIGUE_TASK_COMPLEXITY)]
             /\ items' = Append(items, DecisionMemory(e, now))
             /\ stm' = ShortTermAdd(stm, capacity, id)
             /\ ltm' = Consolidate(r.loop.list, threshold, id, importance)
             /\ returned' = Append(r.loop.ret, 0)
             /\ interaction_count' = interaction_count + 1
             /\ recent_actions' = Append(recent_actions, e.element_id)
             /\ lastOp' = [op |-> "make_decision", input |-> input,
                           ranked |-> ranked, raised |-> "no",
                           chosen |-> best.element, score |-> best, id |-> id]
             /\ UNCHANGED <<current_goal, ctx>>

MakeDecision(input) ==
    /\ ops < budget
    /\ ops' = ops + 1
    /\ \E r \in {Ranking(input)} :
         /\ UpdateStateEffect(r)
         /\ DrawNoise(Len(r.loop.scored))
         /\ \E noise \in Noises(persona, Len(r.loop.scored)) :
              \E ranked \in {SortByScore(AddNoise(r.loop.scored, noise))} :
                 Decide(input, r, ranked)
    /\ UNCHANGED <<now, budget, horizon, capacity, threshold, proc>>

\* record_outcome(element, success, emotional_valence)
RecordOutcome(el, success, emotional_valence) ==
    LET e == Elements[el]
        action_key == ActionKeys[el]
        valence == IF emotional_valence = None
                   THEN (IF success THEN 50 ELSE -50)
                   ELSE emotional_valence[1]
    IN  /\ ops < budget
        /\ ops' = ops + 1
        /\ ctx' = UpdatedContext(ctx, None, None, None, ~success, success)
        /\ proc' = UpdateProcedural(proc, action_key, success, DEFAULT_LEARNING_RATE)
        /\ AddMemoryEffect((IF success THEN <<"S", "u", "c", "c", "e", "s", "s">>
                            ELSE <<"F", "a", "i", "l", "u", "r", "e">>)
                           \o <<":", " ">> \o e.text, S_outcome, 70, valence)
        /\ lastOp' = [op |-> "record_outcome", element |-> el, success |-> success,
                      action_key |-> action_key,
                      before |-> GetActionPreference(proc, action_key),
                      id |-> Len(items) + 1]
        /\ UNCHANGED <<now, budget, horizon, rngVars, capacity, threshold, fsmVars,
                       persona, current_goal, interaction_count, recent_actions>>

\* get_decision_summary(): the dictionary returned (memory_stats left out)
GetDecisionSummary ==
    /\ ops < budget
    /\ ops' = ops + 1
    /\ lastOp' = [op |-> "get_decision_summary",
                  current_emotion |-> current_state,
                  emotion_intensities |-> intensities,
                  energy_level |-> persona.energy_level,
                  interaction_count |-> interaction_count,
                  current_goal |-> IF current_goal = 0 THEN None
                                   ELSE Some(GoalAt(current_goal).description)]
    /\ UNCHANGED <<now, budget, horizon, rngVars, memVars, returned, fsmVars, engineVars>>

\* emotion_fsm.reset()
Reset ==
    /\ ops < budget
    /\ ops' = ops + 1
    /\ current_state' = NEUTRAL
    /\ state_history' = <<NEUTRAL>>
    /\ intensities' = <<>>
    /\ updates' = 0
    /\ lastOp' = [op |-> "reset"]
    /\ UNCHANGED <<now, budget, horizon, rngVars, memVars, returned, profile, weights,
                   engineVars>>

\* persona.apply_fatigue(task_complexity), task_complexity in percent
PersonaApplyFatigue(task_complexity) ==
    /\ ops < budget
    /\ ops' = ops + 1
    /\ persona' = [persona EXCEPT !.energy_level =
           ApplyFatigue(@, persona.fatigue_accumulation_rate, task_complexity)]
    /\ lastOp' = [op |-> "apply_fatigue", task_complexity |-> task_complexity,
                  before |-> persona.energy_level]
    /\ UNCHANGED <<now, budget, horizon, rngVars, memVars, returned, fsmVars,
                   current_goal, ctx, interaction_count, recent_actions>>

\* persona.rest(amount), amount in 1/1000
PersonaRest(amount) ==
    /\ ops < budget
    /\ ops' = ops + 1
    /\ persona' = [persona EXCEPT !.energy_level = Rest(@, amount)]
    /\ lastOp' = [op |-> "rest", amount |-> amount, before |-> persona.energy_level]
    /\ UNCHANGED <<now, budget, horizon, rngVars, memVars, returned, fsmVars,
                   current_goal, ctx, interaction_count, recent_actions>>

\* rank_elements called on another SyntheticUserDecisionMaker, built from another
\* persona: of everything this engine reads, it touches the module-level generator,
\* from which it draws one value per element it scores
OtherRankElements(input) ==
    /\ ops < budget
    /\ ops' = ops + 1
    /\ rng' = rng + Cardinality({k \in 1..Len(input) : input[k] \in ActionableElements})
    /\ UNCHANGED <<now, budget, horizon, memVars, fsmVars, engineVars, own_draws,
                   returned, lastOp>>

----------------------------------------------------------------------------
(* Specifications *)

\* SyntheticUserDecisionMaker(persona, emotion_weights) just constructed
Constructed(p, w, cap, thr, b, h) ==
    /\ now = 0
    /\ ops = 0
    /\ budget = b
    /\ horizon = h
    /\ capacity = cap
    /\ threshold = thr
    /\ items = <<>>
    /\ stm = <<>>
    /\ ltm = <<>>
    /\ proc = <<>>
    /\ returned = <<>>
    /\ rng = 0
    /\ own_draws = 0
    /\ persona = p
    /\ profile = ProfileOf(p)
    /\ weights = w
    /\ current_state = NEUTRAL
    /\ state_history = <<NEUTRAL>>
    /\ intensities = <<>>
    /\ updates = 0
    /\ current_goal = 0
    /\ ctx = DefaultContext
    /\ interaction_count = 0
    /\ recent_actions = <<>>
    /\ lastOp = [op |-> "init"]

\* The engine, driven through its own operations.
Init ==
    \E p \in {DefaultPersona, ExpertPersona} :
        Constructed(p, DefaultWeights, DEFAULT_STM_CAPACITY, DEFAULT_LTM_THRESHOLD,
                    MaxEngineOps, MaxEngineTicks)

Next ==
    \/ \E g \in 1..Len(Goals) : SetGoal(g)
    \/ \E ic \in {None, Some(80)}, f \in BOOLEAN :
           UpdateContext(ic, None, None, f, FALSE)
    \/ ops < budget /\ \E input \in ElementLists : RankElements(input)
    \/ ops < budget /\ \E input \in ElementLists : MakeDecision(input)
    \/ \E el \in OutcomeElements, success \in BOOLEAN : RecordOutcome(el, success, None)
    \/ Tick

Spec == Init /\ [][Next]_vars

\* The memory system alone, MemorySystem(stm_capacity, ltm_threshold), driven
\* through its own operations.
MemoryInputs ==
    { [content |-> S_Chose_button_Buy, memory_type |-> S_action,
       importance |-> 70, emotional_valence |-> 50],
      [content |-> S_Buy_failed, memory_type |-> S_outcome,
       importance |-> 60, emotional_valence |-> -80],
      [content |-> S_Saw_help, memory_type |-> S_observation,
       importance |-> 30, emotional_valence |-> 0] }

\* consolidation thresholds tried: the default and one that importance 0.6 misses
ThresholdSet == {DEFAULT_LTM_THRESHOLD, 70}

InitMem ==
    \E cap \in 0..MaxCapacity, thr \in ThresholdSet :
        Constructed(DefaultPersona, DefaultWeights, cap, thr, MaxMemOps, MaxTicks)

NextMem ==
    \/ \E m \in MemoryInputs :
           AddMemory(m.content, m.memory_type, m.importance, m.emotional_valence)
    \/ \E mt \in {NoStr, S_action}, kw \in {NoStr, S_buy}, mi \in {0, 70},
          limit \in 1..MaxLimit :
           SearchEpisodic(mt, kw, mi, limit)
    \/ \E c \in {S_button_Buy, S_HELP_buy}, mt \in {NoStr, S_action}, limit \in 1..MaxLimit :
           RecallSimilarExperiences(c, mt, limit)
    \/ PerformMemoryConsolidation
    \/ Tick

SpecMem == InitMem /\ [][NextMem]_vars

\* Procedural memory alone: update_procedural_memory with any rate of RateSet.
RateSet == {DEFAULT_LEARNING_RATE, 50}
ProcKeys == {ActionKeys[1], ActionKeys[2]}

InitProc ==
    Constructed(DefaultPersona, DefaultWeights, DEFAULT_STM_CAPACITY,
                DEFAULT_LTM_THRESHOLD, MaxProcOps, 0)

NextProc ==
    \E a \in ProcKeys, success \in BOOLEAN, rate \in RateSet :
        UpdateProceduralMemory(a, success, rate)

SpecProc == InitProc /\ [][NextProc]_vars

\* The engine recording outcomes only.
InitOutcome ==
    Constructed(DefaultPersona, DefaultWeights, DEFAULT_STM_CAPACITY,
                DEFAULT_LTM_THRESHOLD, MaxOutcomeOps, 0)

NextOutcome ==
    \E el \in OutcomeElements, success \in BOOLEAN : RecordOutcome(el, success, None)

SpecOutcome == InitOutcome /\ [][NextOutcome]_vars

\* The emotion engine and the scoring functions, over personas, weights and contexts
\* at the ends of their ranges.
ZeroPersona ==
    [openness |-> 0, conscientiousness |-> 0, neuroticism |-> 0,
     cognitive_ability |-> 0, attention_span |-> 0, product_familiarity |-> 0,
     patience |-> 0, energy_level |-> 0, fatigue_accumulation_rate |-> 0,
     decision_randomness |-> 0]

FullPersona ==
    [openness |-> 100, conscientiousness |-> 100, neuroticism |-> 100,
     cognitive_ability |-> 100, attention_span |-> 100, product_familiarity |-> 100,
     patience |-> 100, energy_level |-> 1000, fatigue_accumulation_rate |-> 100,
     decision_randomness |-> 0]

\* the default user but for a short attention span, deciding without noise
DistractedPersona ==
    [DefaultPersona EXCEPT !.attention_span = 30, !.decision_randomness = 0]

\* EmotionModelWeights with every weight and base intensity equal to v
UniformWeights(v) ==
    [confused |-> [base_intensity |-> v, neuroticism_weight |-> v,
                   familiarity_weight |-> v, cognitive_ability_weight |-> v,
                   openness_weight |-> v, interface_complexity_weight |-> v,
                   task_difficulty_weight |-> v],
     in_control |-> [base_intensity |-> v, conscientiousness_weight |-> v,
                     familiarity_weight |-> v, openness_weight |-> v,
                     external_pressure_weight |-> v, success_weight |-> v],
     neutral |-> [base_intensity |-> v, neuroticism_weight |-> v, openness_weight |-> v],
     frustrated |-> [base_intensity |-> v, neuroticism_weight |-> v,
                     failure_weight |-> v, patience_weight |-> v, pressure_weight |-> v]]

ZeroWeights == UniformWeights(0)
HeavyWeights == UniformWeights(200)

\* only the two last states have any intensity, and the same one
LateTieWeights ==
    [ZeroWeights EXCEPT !.neutral.base_intensity = 30, !.frustrated.base_intensity = 30]

WeightPresets == {DefaultWeights, ZeroWeights, HeavyWeights, LateTieWeights}
PersonaPresets == {DefaultPersona, ZeroPersona, FullPersona, DistractedPersona}

\* the whole page, in order
WholePage == [i \in ElementIds |-> i]

\* action memories whose valence is at either end of its range
ScoreMemoryInputs ==
    { [content |-> S_Chose_button_Buy, memory_type |-> S_action,
       importance |-> 70, emotional_valence |-> 100],
      [content |-> S_Chose_button_Buy, memory_type |-> S_action,
       importance |-> 70, emotional_valence |-> -100] }

InitScore ==
    \E p \in PersonaPresets, w \in WeightPresets :
        Constructed(p, w, DEFAULT_STM_CAPACITY, DEFAULT_LTM_THRESHOLD, MaxScoreOps, 0)

NextScore ==
    \/ \E g \in 1..Len(Goals) : SetGoal(g)
    \/ \E v \in {Some(0), Some(100)}, f \in BOOLEAN, s \in BOOLEAN :
           UpdateContext(v, v, v, f, s)
    \/ \E m \in ScoreMemoryInputs :
           AddMemory(m.content, m.memory_type, m.importance, m.emotional_valence)
    \/ ops < budget /\ RankElements(WholePage)

SpecScore == InitScore /\ [][NextScore]_vars

\* Two engines built from distinct personas in one process: this one, and another
\* of which only the calls to rank_elements are followed.
InitTwo ==
    \E p \in {DefaultPersona, ExpertPersona} :
        Constructed(p, DefaultWeights, DEFAULT_STM_CAPACITY, DEFAULT_LTM_THRESHOLD,
                    MaxTwoOps, 0)

NextTwo ==
    \/ \E g \in 1..Len(Goals) : SetGoal(g)
    \/ ops < budget /\ \E input \in ElementLists : RankElements(input)
    \/ ops < budget /\ \E input \in ElementLists : OtherRankElements(input)

SpecTwo == InitTwo /\ [][NextTwo]_vars

\* The persona alone: apply_fatigue and rest, the only methods that change it.
\* Task complexities are in percent, amounts of rest in 1/1000.
InitPersona ==
    \E p \in PersonaPresets \cup {ExpertPersona} :
        Constructed(p, DefaultWeights, DEFAULT_STM_CAPACITY, DEFAULT_LTM_THRESHOLD,
                    MaxPersonaOps, 0)

NextPersona ==
    \/ \E task_complexity \in {0, 30, 50, 80, 100} : PersonaApplyFatigue(task_complexity)
    \/ \E amount \in {0, 200, 300, 1000} : PersonaRest(amount)

SpecPersona == InitPersona /\ [][NextPersona]_vars

\* The decay sweep: MemorySystem(stm_capacity=1, ltm_threshold=0.2), so that items weak
\* enough to decay are consolidated at all, with memories of importance 0.2 (below
\* strength 0.2 once ten hours old), 0.25 (never below it) and 0.7.
LOW_LTM_THRESHOLD == 20

DecayInputs ==
    { [content |-> S_Saw_help, memory_type |-> S_observation,
       importance |-> 20, emotional_valence |-> 0],
      [content |-> S_Buy_failed, memory_type |-> S_outcome,
       importance |-> 25, emotional_valence |-> -80],
      [content |-> S_Chose_button_Buy, memory_type |-> S_action,
       importance |-> 70, emotional_valence |-> 50] }

InitDecay ==
    Constructed(DefaultPersona, DefaultWeights, 1, LOW_LTM_THRESHOLD, MaxDecayOps, MaxTicks)

NextDecay ==
    \/ \E m \in DecayInputs :
           AddMemory(m.content, m.memory_type, m.importance, m.emotional_valence)
    \/ SearchEpisodic(NoStr, NoStr, 0, MaxLimit)
    \/ RecallSimilarExperiences(S_HELP_buy, NoStr, MaxLimit)
    \/ PerformMemoryConsolidation
    \/ Tick

SpecDecay == InitDecay /\ [][NextDecay]_vars

\* Outcomes and rankings: the counters of the emotion context grow with each outcome
\* recorded, the pressure is set to either end of its range, and each ranking
\* recomputes the intensities.
InitCounters ==
    \E p \in {DefaultPersona, ExpertPersona} :
        Constructed(p, DefaultWeights, DEFAULT_STM_CAPACITY, DEFAULT_LTM_THRESHOLD,
                    MaxCounterOps, 0)

NextCounters ==
    \/ \E success \in BOOLEAN : RecordOutcome(1, success, None)
    \/ \E v \in {0, Pct} : UpdateContext(None, Some(v), None, FALSE, FALSE)
    \/ RankElements(<<1>>)

SpecCounters == InitCounters /\ [][NextCounters]_vars

\* A session of the engine: every operation of SyntheticUserDecisionMaker, and
\* emotion_fsm.reset(), on a few inputs, for the default user and for a user who
\* decides without noise and whose energy one decision exhausts.
TiredPersona == [ExpertPersona EXCEPT !.energy_level = 200]

InitSession ==
    \E p \in {DefaultPersona, TiredPersona} :
        Constructed(p, DefaultWeights, DEFAULT_STM_CAPACITY, DEFAULT_LTM_THRESHOLD,
                    MaxSessionOps, 0)

NextSession ==
    \/ SetGoal(1)
    \/ UpdateContext(Some(80), None, None, TRUE, FALSE)
    \/ ops < budget /\ \E input \in {<<>>, <<3>>, <<1, 2>>} : RankElements(input)
    \/ ops < budget /\ \E input \in {<<>>, <<3, 4>>, <<2, 1>>} : MakeDecision(input)
    \/ \E success \in BOOLEAN : RecordOutcome(1, success, None)
    \/ GetDecisionSummary
    \/ Reset

SpecSession == InitSession /\ [][NextSession]_vars

----------------------------------------------------------------------------
(* Properties *)

\* C1.  In every state of the memory system, the short-term buffer holds at most
\* `capacity` items, and they are the most recently added items, oldest first: the
\* last min(capacity, n) of the n items added so far, in insertion order.
C1_ShortTermHoldsMostRecent ==
    /\ Len(stm) <= capacity
    /\ stm = [k \in 1..Min(capacity, Len(items)) |->
                 Len(items) - Min(capacity, Len(items)) + k]

\* an add_memory on a full buffer of at least two items has just evicted the oldest
C1_Witness ==
    /\ lastOp.op = "add_memory"
    /\ capacity >= 2
    /\ Len(items) > capacity
    /\ stm[1] = Len(items) - capacity + 1

\* C2, as stated.  Right after add_memory the new item is in the short-term buffer,
\* and it is in the episodic list iff its importance >= the threshold; no item of the
\* episodic list is ever below the threshold.
C2_AsStated ==
    /\ lastOp.op = "add_memory" =>
          /\ lastOp.id \in Range(stm)
          /\ lastOp.id \in Range(ltm) <=> lastOp.importance >= threshold
    /\ \A id \in Range(ltm) : items[id].importance >= threshold

\* C2, amended.  Right after add_memory the new item is the newest entry of the
\* short-term buffer provided the capacity is at least 1 (a buffer of capacity 0
\* keeps nothing); it is in the episodic list iff its importance >= the threshold;
\* no item of the episodic list is ever below the threshold.
C2_ConsolidatedIffImportant ==
    /\ lastOp.op = "add_memory" =>
          /\ capacity >= 1 => (stm # <<>> /\ stm[Len(stm)] = lastOp.id)
          /\ capacity = 0 => stm = <<>>
          /\ lastOp.id \in Range(ltm) <=> lastOp.importance >= threshold
    /\ \A id \in Range(ltm) : items[id].importance >= threshold

\* an item whose importance equals the threshold has just been added and is in both
\* tiers, while an item below the threshold is absent from the episodic list
C2_Witness ==
    /\ lastOp.op = "add_memory"
    /\ capacity >= 1
    /\ lastOp.importance = threshold
    /\ lastOp.id \in Range(stm)
    /\ lastOp.id \in Range(ltm)
    /\ \E id \in 1..Len(items) : items[id].importance < threshold /\ id \notin Range(ltm)

\* C3.  Every stored action preference lies in [0,1]; a success leaves the preference
\* at min(1, before + rate) and a failure at max(0, before - rate), so that it rises
\* (falls) by the rate until it reaches 1.0 (0.0) and then stays there.
C3_PreferenceBounded ==
    /\ \A k \in DOMAIN proc : proc[k] >= 0 /\ proc[k] <= Pct
    /\ lastOp.op = "update_procedural_memory" =>
          proc[lastOp.action] =
              IF lastOp.success THEN Min(Pct, lastOp.before + lastOp.learning_rate)
              ELSE Max(0, lastOp.before - lastOp.learning_rate)

\* a success on a preference already at 1.0 has left it at 1.0, while another
\* preference sits at 0.0
C3_Witness ==
    /\ lastOp.op = "update_procedural_memory"
    /\ lastOp.success
    /\ lastOp.before = Pct
    /\ proc[lastOp.action] = Pct
    /\ \E k \in DOMAIN proc : proc[k] = 0

C5_RankedAreTheActionable ==
    lastOp.op = "rank_elements" =>
        /\ Len(lastOp.ranked) =
              Cardinality({k \in 1..Len(lastOp.input) :
                  /\ Elements[lastOp.input[k]].is_visible
                  /\ Elements[lastOp.input[k]].is_enabled})
        /\ \A k \in 1..Len(lastOp.input) :
              Cardinality({j \in 1..Len(lastOp.ranked) :
                              lastOp.ranked[j].element = lastOp.input[k]})
                 = IF /\ Elements[lastOp.input[k]].is_visible
                      /\ Elements[lastOp.input[k]].is_enabled
                   THEN 1 ELSE 0
        /\ \A j \in 1..Len(lastOp.ranked) :
              \E k \in 1..Len(lastOp.input) : lastOp.input[k] = lastOp.ranked[j].element

\* a ranking of a list that holds an element to score and one of the highest
\* prominence that is invisible or disabled
C5_Witness ==
    /\ lastOp.op = "rank_elements"
    /\ Len(lastOp.input) = 2
    /\ Len(lastOp.ranked) = 1
    /\ \E k \in 1..2 : /\ Elements[lastOp.input[k]].visual_prominence = Pct
                       /\ \A j \in 1..Len(lastOp.ranked) :
                             lastOp.ranked[j].element # lastOp.input[k]

\* C6.  A make_decision call on a list with no visible and enabled element (the empty
\* list included) ends in ValueError and leaves the short-term buffer, the episodic
\* list, the procedural memory and the memory items as they were.
C6_EmptyCandidatesRaise ==
    [][(/\ ops' = ops + 1
        /\ lastOp'.op = "make_decision"
        /\ \A k \in 1..Len(lastOp'.input) :
              ~(/\ Elements[lastOp'.input[k]].is_visible
                /\ Elements[lastOp'.input[k]].is_enabled))
       => /\ lastOp'.raised = "ValueError"
          /\ stm' = stm
          /\ ltm' = ltm
          /\ proc' = proc
          /\ items' = items]_vars

\* make_decision has raised on a non-empty list, all of it filtered out, with memories
\* in both tiers and a learned preference in place
C6_Witness ==
    /\ lastOp.op = "make_decision"
    /\ lastOp.raised = "ValueError"
    /\ lastOp.input # <<>>
    /\ stm # <<>>
    /\ ltm # <<>>
    /\ DOMAIN proc # {}

\* C7.  When make_decision returns, the element returned is a visible and enabled
\* member of the input list and the first entry of the ranking of that call, and no
\* entry of that ranking has a greater total_score.
C7_DecisionIsTopRanked ==
    (lastOp.op = "make_decision" /\ lastOp.raised = "no") =>
        /\ \E k \in 1..Len(lastOp.input) : lastOp.input[k] = lastOp.chosen
        /\ Elements[lastOp.chosen].is_visible
        /\ Elements[lastOp.chosen].is_enabled
        /\ lastOp.ranked # <<>>
        /\ lastOp.ranked[1] = lastOp.score
        /\ lastOp.score.element = lastOp.chosen
        /\ \A j \in 1..Len(lastOp.ranked) :
              lastOp.ranked[j].total_score <= lastOp.score.total_score

\* make_decision has returned the second element of its input, ranked strictly above
\* the first
C7_Witness ==
    /\ lastOp.op = "make_decision"
    /\ lastOp.raised = "no"
    /\ Len(lastOp.ranked) = 2
    /\ lastOp.chosen = lastOp.input[2]
    /\ lastOp.ranked[2].total_score < lastOp.ranked[1].total_score

\* C8.  Once update_state has run, the intensities are stored in the order Confused,
\* InControl, Neutral, Frustrated, and the dominant state is the first state of that
\* order whose intensity is maximal; with four equal intensities it is Confused.
C8_FirstMaximalWins ==
    intensities # <<>> =>
        /\ [k \in 1..Len(intensities) |-> intensities[k][1]]
              = <<CONFUSED, IN_CONTROL, NEUTRAL, FRUSTRATED>>
        /\ \E k \in 1..4 :
              /\ current_state = intensities[k][1]
              /\ \A j \in 1..4 : intensities[j][2] <= intensities[k][2]
              /\ \A j \in 1..(k - 1) : intensities[j][2] < intensities[k][2]
        /\ (\A j \in 2..4 : intensities[j][2] = intensities[1][2])
              => current_state = CONFUSED
        /\ state_history[Len(state_history)] = current_state

\* three states tied at an intensity clamped to 1.0, above Confused: InControl wins
C8_Witness ==
    /\ lastOp.op = "rank_elements"
    /\ intensities # <<>>
    /\ intensities[1][2] < Pct * Pct
    /\ \A j \in 2..4 : intensities[j][2] = Pct * Pct
    /\ current_state = IN_CONTROL

\* C9.  Each of the four intensities update_state stores lies in [0,1], and so does
\* each of the goal-alignment, visual-prominence, cognitive-load, familiarity,
\* emotion-preference and position scores of every element rank_elements scores.
C9_IntensitiesAndScoresInUnitRange ==
    /\ \A k \in 1..Len(intensities) :
          intensities[k][2] >= 0 /\ intensities[k][2] <= Pct * Pct
    /\ lastOp.op = "rank_elements" =>
          \A j \in 1..Len(lastOp.ranked) :
             \A c \in {"goal_alignment", "visual_prominence", "cognitive_load",
                       "familiarity", "emotion_preference", "position"} :
                /\ lastOp.ranked[j].component_scores[c] >= 0
                /\ lastOp.ranked[j].component_scores[c] <= Pct * Mille

\* a ranking whose intensities reach both ends of the range and whose scores
\* include a goal alignment and a familiarity at 1.0
C9_Witness ==
    /\ lastOp.op = "rank_elements"
    /\ \E k \in 1..Len(intensities) : intensities[k][2] = Pct * Pct
    /\ \E k \in 1..Len(intensities) : intensities[k][2] = 0
    /\ \E j \in 1..Len(lastOp.ranked) :
          /\ lastOp.ranked[j].component_scores["goal_alignment"] = Pct * Mille
          /\ lastOp.ranked[j].component_scores["familiarity"] = Pct * Mille

\* C10.  The access_count of every memory item equals the number of times an
\* episodic search has returned it.
C10_AccessCountCountsReturns ==
    \A id \in 1..Len(items) : items[id].access_count = returned[id]

\* an episodic search has just returned an item
C10_Witness ==
    /\ lastOp.op = "search_episodic"
    /\ lastOp.result # <<>>
    /\ returned[lastOp.result[1]] >= 1

\* C11.  While no goal has been set, make_decision returns a choice for every list
\* that holds a visible and enabled element (the absence of a goal makes nothing
\* fail), and the goal_alignment of every element that rank_elements or
\* make_decision has scored is the neutral 0.5.
C11_NoGoalIsNeutral ==
    current_goal = 0 =>
        /\ lastOp.op \in {"rank_elements", "make_decision"} =>
              \A j \in 1..Len(lastOp.ranked) :
                 lastOp.ranked[j].component_scores["goal_alignment"] = 50 * Mille
        /\ (/\ lastOp.op = "make_decision"
            /\ \E k \in 1..Len(lastOp.input) :
                  /\ Elements[lastOp.input[k]].is_visible
                  /\ Elements[lastOp.input[k]].is_enabled)
              => lastOp.raised = "no"

\* a decision taken without any goal, among two scored elements
C11_Witness ==
    /\ current_goal = 0
    /\ lastOp.op = "make_decision"
    /\ lastOp.raised = "no"
    /\ Len(lastOp.ranked) = 2

\* C12.  Nothing this engine reads is changed by an operation on another engine: in
\* particular the generator from which its ranking noise is drawn has advanced only
\* by the values this engine drew itself.
C12_NoSharedGenerator ==
    rng = own_draws

\* this engine has ranked two elements after the other engine had ranked its own
C12_Witness ==
    /\ lastOp.op = "rank_elements"
    /\ Len(lastOp.ranked) = 2
    /\ rng > own_draws

C14_CountersOnlyGrow ==
    [][/\ ctx'.recent_failures \in Nat
       /\ ctx'.recent_successes \in Nat
       /\ ctx'.recent_failures >= ctx.recent_failures
       /\ ctx'.recent_successes >= ctx.recent_successes
       /\ (ops' = ops + 1 /\ now' = now /\ lastOp'.op = "record_outcome") =>
             /\ ctx'.recent_successes =
                   ctx.recent_successes + (IF lastOp'.success THEN 1 ELSE 0)
             /\ ctx'.recent_failures =
                   ctx.recent_failures + (IF lastOp'.success THEN 0 ELSE 1)
       /\ (ops' = ops + 1 /\ now' = now
           /\ lastOp'.op \in {"rank_elements", "make_decision"}) =>
             /\ ctx'.recent_successes = ctx.recent_successes
             /\ ctx'.recent_failures = ctx.recent_failures]_vars

\* a success recorded after a failure: one of each counted
C14_Witness ==
    /\ lastOp.op = "record_outcome"
    /\ lastOp.success
    /\ ctx.recent_successes = 1
    /\ ctx.recent_failures = 1

\* C15.  A make_decision call that returns a choice adds exactly 1 to
\* interaction_count and one entry to recent_actions, and adds exactly one memory
\* item, of type "action", importance 0.5 and valence 0.1, which becomes the newest
\* entry of the short-term buffer; no other step changes interaction_count or
\* recent_actions, and interaction_count always equals the length of recent_actions.
C15_DecisionsAreCounted ==
    /\ [](interaction_count = Len(recent_actions))
    /\ [][IF /\ ops' = ops + 1
             /\ now' = now
             /\ lastOp'.op = "make_decision"
             /\ lastOp'.raised = "no"
          THEN /\ interaction_count' = interaction_count + 1
               /\ Len(recent_actions') = Len(recent_actions) + 1
               /\ Len(items') = Len(items) + 1
               /\ SubSeq(items', 1, Len(items)) = items
               /\ items'[Len(items')].memory_type = S_action
               /\ items'[Len(items')].importance = 50
               /\ items'[Len(items')].emotional_valence = 10
               /\ stm' = Append(stm, Len(items'))
          ELSE /\ interaction_count' = interaction_count
               /\ recent_actions' = recent_actions]_vars

\* two decisions have been taken
C15_Witness ==
    /\ lastOp.op = "make_decision"
    /\ lastOp.raised = "no"
    /\ interaction_count = 2
    /\ Len(stm) = 2

\* C16, as stated.  When no goal is active, the goal_alignment of every element
\* rank_elements scores is 0.
C16_AsStated ==
    (lastOp.op = "rank_elements" /\ current_goal = 0) =>
        \A j \in 1..Len(lastOp.ranked) :
           lastOp.ranked[j].component_scores["goal_alignment"] = 0

\* C16, amended.  When no goal is active, the goal_alignment of every element
\* rank_elements scores is 0.5, whatever the persona, the emotion weights, the
\* context and the memories.
C16_NoGoalScoresHalf ==
    (lastOp.op = "rank_elements" /\ current_goal = 0) =>
        \A j \in 1..Len(lastOp.ranked) :
           lastOp.ranked[j].component_scores["goal_alignment"] = (Pct * Mille) \div 2

\* the page ranked without a goal by a user who remembers choosing the button
C16_Witness ==
    /\ lastOp.op = "rank_elements"
    /\ current_goal = 0
    /\ Len(lastOp.ranked) = 2
    /\ ltm # <<>>

\* C17.  The list rank_elements returns is in order of non-increasing total_score,
\* and of two entries with the same total_score the one whose element comes first
\* in the input list comes first.
C17_RankingSortedAndStable ==
    lastOp.op = "rank_elements" =>
        \A j, k \in 1..Len(lastOp.ranked) :
           j < k =>
              /\ lastOp.ranked[j].total_score >= lastOp.ranked[k].total_score
              /\ lastOp.ranked[j].total_score = lastOp.ranked[k].total_score =>
                    \E a, b \in 1..Len(lastOp.input) :
                       /\ a < b
                       /\ lastOp.input[a] = lastOp.ranked[j].element
                       /\ lastOp.input[b] = lastOp.ranked[k].element

\* the form given before the button, both with the same total_score: the form is
\* ranked first although the button scores higher before the noise
C17_Witness ==
    /\ lastOp.op = "rank_elements"
    /\ Len(lastOp.ranked) = 2
    /\ lastOp.ranked[1].total_score = lastOp.ranked[2].total_score
    /\ lastOp.input = <<2, 1>>
    /\ lastOp.ranked[1].element = 2
    /\ lastOp.scored[1].total_score < lastOp.scored[2].total_score

\* C18.  Every ElementScore of a ranking has total_score >= 0: it is the combined
\* score plus the noise drawn for it when that is not negative, and exactly 0
\* otherwise; so has the ElementScore make_decision returns.
C18_TotalScoreFloored ==
    /\ lastOp.op = "rank_elements" =>
          /\ \A j \in 1..Len(lastOp.ranked) : lastOp.ranked[j].total_score >= 0
          /\ \A k \in 1..Len(lastOp.scored) :
                \E j \in 1..Len(lastOp.ranked) :
                   /\ lastOp.ranked[j].element = lastOp.scored[k].element
                   /\ lastOp.ranked[j].total_score =
                         IF lastOp.scored[k].total_score + lastOp.noise[k] < 0 THEN 0
                         ELSE lastOp.scored[k].total_score + lastOp.noise[k]
    /\ (lastOp.op = "make_decision" /\ lastOp.raised = "no") =>
          /\ lastOp.score.total_score >= 0
          /\ \A j \in 1..Len(lastOp.ranked) : lastOp.ranked[j].total_score >= 0

\* a ranking in which the noise sank one element below 0 and not the other
C18_Witness ==
    /\ lastOp.op = "rank_elements"
    /\ Len(lastOp.ranked) = 2
    /\ lastOp.ranked[2].total_score = 0
    /\ lastOp.ranked[1].total_score > 0
    /\ \E k \in 1..2 : lastOp.scored[k].total_score + lastOp.noise[k] < 0

\* C19.  Right after a decay sweep at time t, the episodic list holds exactly the
\* items it held before whose strength at t is >= 0.2, each once and in their
\* previous relative order; and an item that is not in the episodic list never
\* enters it in any later step (only the item a fresh add_memory creates does).
C19_DecayKeepsTheStrong ==
    /\ [](lastOp.op = "perform_memory_consolidation" =>
            /\ Range(ltm) = {id \in Range(lastOp.before) :
                                GetStrength(items[id], lastOp.at) >= DECAY_THRESHOLD}
            /\ Cardinality(Range(ltm)) = Len(ltm)
            /\ \A i, j \in 1..Len(ltm) :
                  i < j => \E a, b \in 1..Len(lastOp.before) :
                              /\ a < b
                              /\ lastOp.before[a] = ltm[i]
                              /\ lastOp.before[b] = ltm[j])
    /\ [][\A id \in 1..Len(items) : id \notin Range(ltm) => id \notin Range(ltm')]_vars

\* a sweep that removed one item and kept two, one of them of strength exactly 0.2
C19_Witness ==
    /\ lastOp.op = "perform_memory_consolidation"
    /\ Len(lastOp.before) = 3
    /\ Len(ltm) = 2
    /\ \E id \in Range(ltm) : GetStrength(items[id], lastOp.at) = DECAY_THRESHOLD

\* C20.  Right after a ranking, with three or more recent failures the Frustrated
\* intensity is the one three failures give, and with three or more recent successes
\* the InControl intensity is the one three successes give, everything else equal.
C20_BonusSaturates ==
    lastOp.op = "rank_elements" =>
        /\ ctx.recent_failures >= 3 =>
              IntensityOf(intensities, FRUSTRATED)
                  = FrustratedIntensity(profile, weights,
                                        [ctx EXCEPT !.recent_failures = 3],
                                        persona.patience)
        /\ ctx.recent_successes >= 3 =>
              IntensityOf(intensities, IN_CONTROL)
                  = InControlIntensity(profile, weights,
                                       [ctx EXCEPT !.recent_successes = 3])

\* a ranking after four failures, whose Frustrated intensity is below 1 and above
\* the one two failures give
C20_Witness ==
    /\ lastOp.op = "rank_elements"
    /\ ctx.recent_failures >= 4
    /\ IntensityOf(intensities, FRUSTRATED) < Pct * Pct
    /\ IntensityOf(intensities, FRUSTRATED)
           > FrustratedIntensity(profile, weights,
                                 [ctx EXCEPT !.recent_failures = 2], persona.patience)

\* C21.  Right after recall_similar_experiences(context, memory_type, limit), the
\* result has at most limit items, none twice; each is in the episodic list, is of
\* the requested type if one was requested, and contains a token of the lower-cased
\* context; strengths do not increase along the result; and no episodic item that
\* matches but was left out is strictly stronger than a returned one.
C21_RecallReturnsTheStrongestMatches ==
    lastOp.op = "recall_similar_experiences" =>
        LET res == lastOp.result
            tokens == Split(Lower(lastOp.current_context))
            matches(id) ==
                /\ lastOp.memory_type # NoStr => items[id].memory_type = lastOp.memory_type
                /\ \E k \in 1..Len(tokens) : Contains(tokens[k], Lower(items[id].content))
            strength(id) == GetStrength(items[id], lastOp.at)
        IN  /\ Len(res) <= lastOp.limit
            /\ \A i, j \in 1..Len(res) : i # j => res[i] # res[j]
            /\ \A i \in 1..Len(res) : res[i] \in Range(ltm) /\ matches(res[i])
            /\ \A i \in 1..(Len(res) - 1) : strength(res[i]) >= strength(res[i + 1])
            /\ \A x \in Range(ltm) \ Range(res) :
                  matches(x) => \A i \in 1..Len(res) : strength(x) <= strength(res[i])

\* a recall over two tokens that returned as many items as the limit allows while
\* more episodic items matched, and while an item held only in the short-term
\* buffer contained a token as well
C21_Witness ==
    /\ lastOp.op = "recall_similar_experiences"
    /\ Len(Split(Lower(lastOp.current_context))) >= 2
    /\ Len(lastOp.result) = lastOp.limit
    /\ \E x \in Range(ltm) \ Range(lastOp.result) :
          \E k \in 1..Len(Split(Lower(lastOp.current_context))) :
             Contains(Split(Lower(lastOp.current_context))[k], Lower(items[x].content))
    /\ \E x \in Range(stm) \ Range(ltm) :
          \E k \in 1..Len(Split(Lower(lastOp.current_context))) :
             Contains(Split(Lower(lastOp.current_context))[k], Lower(items[x].content))

\* C22.  In every state current_state is the last entry of state_history, whose
\* length is 1 plus the number of update_state calls since construction or reset;
\* a rank_elements or make_decision call performs exactly one update_state, reset
\* restores the initial state, and a set_goal, update_context, record_outcome or
\* get_decision_summary call changes none of current_state, intensities and
\* state_history.
C22_HistoryFollowsUpdates ==
    /\ [](/\ current_state = state_history[Len(state_history)]
          /\ Len(state_history) = 1 + updates)
    /\ [][(ops' = ops + 1) =>
            IF lastOp'.op \in {"rank_elements", "make_decision"}
            THEN /\ updates' = updates + 1
                 /\ state_history' = Append(state_history, current_state')
                 /\ intensities' # <<>>
            ELSE IF lastOp'.op = "reset"
            THEN /\ updates' = 0
                 /\ state_history' = <<NEUTRAL>>
                 /\ intensities' = <<>>
            ELSE /\ lastOp'.op \in {"set_goal", "update_context", "record_outcome",
                                    "get_decision_summary"}
                 /\ updates' = updates
                 /\ current_state' = current_state
                 /\ intensities' = intensities
                 /\ state_history' = state_history]_vars

\* a second decision taken after a reset that followed the first: two decisions,
\* one update counted
C22_Witness ==
    /\ lastOp.op = "make_decision"
    /\ lastOp.raised = "no"
    /\ interaction_count = 2
    /\ updates = 1
    /\ Len(state_history) = 2
    /\ current_state # NEUTRAL

\* C23.  The episodic list keeps its items in the order in which they were stored
\* (identities are given in creation order, so the list is increasing), and right
\* after a search_episodic call, whatever its filters, the list is what it was
\* before the call.
C23_EpisodicListKeepsItsOrder ==
    /\ \A i, j \in 1..Len(ltm) : i < j => ltm[i] < ltm[j]
    /\ lastOp.op = "search_episodic" => ltm = lastOp.before

\* a search has just left the episodic list with the same items in another order
C23_Witness ==
    /\ lastOp.op = "search_episodic"
    /\ Len(ltm) >= 2
    /\ Range(ltm) = Range(lastOp.before)
    /\ ltm # lastOp.before

\* C24.  An add_memory call removes nothing from the episodic list, whatever it
\* evicts from the short-term buffer; an item whose importance is below the
\* threshold and that has left the short-term buffer is not in the episodic list
\* either; and an item that is in neither tier is in neither tier after any step.
C24_EvictionLeavesLongTermAlone ==
    /\ [](\A id \in 1..Len(items) :
             (items[id].importance < threshold /\ id \notin Range(stm))
                 => id \notin Range(ltm))
    /\ [][/\ (ops' = ops + 1 /\ now' = now /\ lastOp'.op = "add_memory") =>
                /\ \A id \in Range(ltm) : id \in Range(ltm')
                /\ \A id \in 1..Len(items) :
                      items[id].importance >= threshold => id \in Range(ltm')
          /\ \A id \in 1..Len(items) :
                (id \notin Range(stm) /\ id \notin Range(ltm))
                    => (id \notin Range(stm') /\ id \notin Range(ltm'))]_vars

\* an add_memory has just been done while an important item, evicted from the
\* short-term buffer, is still in the episodic list and an unimportant one, evicted
\* as well, is in neither tier
C24_Witness ==
    /\ lastOp.op = "add_memory"
    /\ capacity >= 1
    /\ \E id \in 1..Len(items) :
          /\ items[id].importance >= threshold
          /\ id \notin Range(stm)
          /\ id \in Range(ltm)
    /\ \E id \in 1..Len(items) :
          /\ items[id].importance < threshold
          /\ id \notin Range(stm)
          /\ id \notin Range(ltm)

\* C25.  In a session of the engine (default consolidation threshold) the episodic
\* list never holds an item of type "action", and the familiarity component of
\* every element scored by rank_elements or make_decision is the persona's
\* product_familiarity.
C25_FamiliarityIsProductFamiliarity ==
    /\ threshold = DEFAULT_LTM_THRESHOLD
    /\ \A id \in Range(ltm) : items[id].memory_type # S_action
    /\ lastOp.op \in {"rank_elements", "make_decision"} =>
          \A k \in 1..Len(lastOp.ranked) :
             lastOp.ranked[k].component_scores.familiarity
                 = persona.product_familiarity * Mille

\* a ranking of two elements after two decisions and an outcome: the action
\* memories of the decisions are in the short-term buffer, the outcome is in the
\* episodic list
C25_Witness ==
    /\ lastOp.op = "rank_elements"
    /\ Len(lastOp.ranked) = 2
    /\ interaction_count = 2
    /\ ltm # <<>>
    /\ \E id \in Range(stm) : items[id].memory_type = S_action

\* C26.  With the default emotion weights, once update_state has run the Neutral
\* intensity is at most 0.3 and the InControl intensity at least 0.5; NEUTRAL is
\* the first entry of state_history and no other; and the weight table by which a
\* ranking combined its scores is not the table without overrides.
C26_NeverNeutralAgain ==
    (weights = DefaultWeights /\ intensities # <<>>) =>
        /\ IntensityOf(intensities, NEUTRAL) <= 3000
        /\ IntensityOf(intensities, IN_CONTROL) >= 5000
        /\ current_state # NEUTRAL
        /\ state_history[1] = NEUTRAL
        /\ \A k \in 2..Len(state_history) : state_history[k] # NEUTRAL
        /\ lastOp.op = "rank_elements" =>
              /\ CombineWeights(current_state) # CombineWeights(NEUTRAL)
              /\ \A k \in 1..Len(lastOp.scored) :
                    lastOp.scored[k].total_score
                        = WeightedSum(lastOp.scored[k].component_scores,
                                      CombineWeights(current_state), 1)

\* a ranking with the default weights in which the InControl intensity is at its
\* least, 0.5: every trait and the pressure are 0
C26_Witness ==
    /\ weights = DefaultWeights
    /\ lastOp.op = "rank_elements"
    /\ lastOp.scored # <<>>
    /\ IntensityOf(intensities, IN_CONTROL) = 5000
    /\ IntensityOf(intensities, NEUTRAL) = 1000

\* C27.  With a consolidation threshold of 0.6 (the default) every item of the
\* episodic list has strength >= 0.27 at the current time; a decay sweep leaves the
\* list as it was; and no step makes the list shorter.
C27_NothingDecaysAtDefaultThreshold ==
    /\ [](threshold = DEFAULT_LTM_THRESHOLD =>
            /\ \A id \in Range(ltm) : GetStrength(items[id], now) >= 2700
            /\ lastOp.op = "perform_memory_consolidation" => ltm = lastOp.before)
    /\ [][threshold = DEFAULT_LTM_THRESHOLD => Len(ltm') >= Len(ltm)]_vars

\* a sweep at the default threshold over an item whose strength has sunk to 0.27:
\* importance 0.6, ten hours old
C27_Witness ==
    /\ threshold = DEFAULT_LTM_THRESHOLD
    /\ lastOp.op = "perform_memory_consolidation"
    /\ lastOp.at = now
    /\ \E id \in Range(ltm) : GetStrength(items[id], now) = 2700

\* C28.  A make_decision call that ends in ValueError leaves the persona (energy
\* included), interaction_count, recent_actions, the goal and the context as they
\* were, and has run update_state once: the intensities are those of the context,
\* current_state is their dominant state, and state_history has one more entry,
\* that state.
C28_FailedDecisionStillUpdatesEmotion ==
    [][(/\ ops' = ops + 1
        /\ lastOp'.op = "make_decision"
        /\ lastOp'.raised = "ValueError")
       => /\ persona' = persona
          /\ interaction_count' = interaction_count
          /\ recent_actions' = recent_actions
          /\ current_goal' = current_goal
          /\ ctx' = ctx
          /\ intensities' = ComputeIntensities(profile, weights, ctx, persona.patience)
          /\ current_state' = DominantState(intensities')
          /\ state_history' = Append(state_history, current_state')
          /\ updates' = updates + 1]_vars

\* the first call of a session is a make_decision that raised on a non-empty list:
\* the emotion engine has left NEUTRAL, nothing else has moved
C28_Witness ==
    /\ lastOp.op = "make_decision"
    /\ lastOp.raised = "ValueError"
    /\ lastOp.input # <<>>
    /\ ops = 1
    /\ state_history = <<NEUTRAL, current_state>>
    /\ current_state # NEUTRAL
    /\ intensities # <<>>
    /\ interaction_count = 0
    /\ recent_actions = <<>>

\* C29.  A rank_elements call leaves the short-term buffer, the episodic list, every
\* memory item (access_count included), the procedural memory, the persona,
\* interaction_count, recent_actions, the goal and the context as they were.
C29_RankingOnlyMovesTheEmotionEngine ==
    [][(ops' = ops + 1 /\ lastOp'.op = "rank_elements")
       => /\ stm' = stm
          /\ ltm' = ltm
          /\ items' = items
          /\ proc' = proc
          /\ persona' = persona
          /\ interaction_count' = interaction_count
          /\ recent_actions' = recent_actions
          /\ current_goal' = current_goal
          /\ ctx' = ctx]_vars

\* a ranking that scored an element whose action key the procedural memory has
\* never seen, next to one it has, with memories in both tiers
C29_Witness ==
    /\ lastOp.op = "rank_elements"
    /\ \E k \in 1..Len(lastOp.ranked) :
          ActionKeys[lastOp.ranked[k].element] \notin DOMAIN proc
    /\ \E k \in 1..Len(lastOp.ranked) :
          ActionKeys[lastOp.ranked[k].element] \in DOMAIN proc
    /\ stm # <<>>
    /\ ltm # <<>>
    /\ interaction_count >= 1

\* C30.  In a session of the engine the energy level never increases: a
\* make_decision call that returns a choice lowers it by 0.3 times the fatigue
\* rate, and to 0 if that would go below 0; every other call leaves it as it was;
\* once it is 0 it stays 0.
C30_EnergyOnlyFalls ==
    [][/\ persona'.energy_level <= persona.energy_level
       /\ persona'.energy_level >= 0
       /\ persona.energy_level = 0 => persona'.energy_level = 0
       /\ IF /\ ops' = ops + 1
             /\ lastOp'.op = "make_decision"
             /\ lastOp'.raised = "no"
          THEN persona'.energy_level =
                   IF persona.energy_level >= 3 * persona.fatigue_accumulation_rate
                   THEN persona.energy_level - 3 * persona.fatigue_accumulation_rate
                   ELSE 0
          ELSE persona'.energy_level = persona.energy_level]_vars

\* a second decision taken with no energy left: the first one took the level from
\* 0.2 down to 0, where 0.3 was due
C30_Witness ==
    /\ lastOp.op = "make_decision"
    /\ lastOp.raised = "no"
    /\ interaction_count = 2
    /\ persona.fatigue_accumulation_rate = Pct
    /\ persona.energy_level = 0

====
